---------------------------- MODULE Spec2Model ----------------------------
(***************************************************************************)
(* TalentScout hiring assistant: the slot-filling dialogue of app.py, the  *)
(* helpers of utils.py (tokenizer, goodbye detector, question parsing,     *)
(* record persistence, model-name resolution) and the fixed texts of       *)
(* prompts.py.                                                             *)
(*                                                                         *)
(* Text is a sequence of one-character strings, so that trimming,          *)
(* splitting, searching and joining are computed as the Python code        *)
(* computes them.  Fixed user-interface texts are kept as message kinds.   *)
(***************************************************************************)
EXTENDS Integers, Sequences, FiniteSets, TLC

(***************************************************************************)
(* Characters and elementary string operations (Python str semantics on    *)
(* the ASCII alphabet used by the model).                                  *)
(***************************************************************************)
Digit == {"0", "1", "2", "3", "4", "5", "6", "7", "8", "9"}

LowerSeq == <<"a", "b", "c", "d", "e", "f", "g", "h", "i", "j", "k", "l", "m",
              "n", "o", "p", "q", "r", "s", "t", "u", "v", "w", "x", "y", "z">>

UpperSeq == <<"A", "B", "C", "D", "E", "F", "G", "H", "I", "J", "K", "L", "M",
              "N", "O", "P", "Q", "R", "S", "T", "U", "V", "W", "X", "Y", "Z">>

LowerCase == {LowerSeq[i] : i \in DOMAIN LowerSeq}

UpperCase == {UpperSeq[i] : i \in DOMAIN UpperSeq}

Alpha == LowerCase \cup UpperCase

\* the characters str.strip() removes
WhiteSpace == {" ", "\t", "\n", "\r"}

Min(a, b) == IF a <= b THEN a ELSE b

Max(a, b) == IF a >= b THEN a ELSE b

\* Python s[a:b] for 0 <= a, 0 <= b
Slice(s, a, b) == SubSeq(s, a + 1, Min(b, Len(s)))

\* Python s[a:]
SliceFrom(s, a) == SubSeq(s, a + 1, Len(s))

\* p occurs in s at (1-based) position i
StartsAt(s, p, i) ==
    /\ i >= 1
    /\ i + Len(p) - 1 <= Len(s)
    /\ SubSeq(s, i, i + Len(p) - 1) = p

\* Python "p in s"
Contains(s, p) == \E i \in 1..(Len(s) + 1) : StartsAt(s, p, i)

RECURSIVE LStrip(_)
LStrip(s) ==
    IF s # <<>> /\ Head(s) \in WhiteSpace THEN LStrip(Tail(s)) ELSE s

RECURSIVE RStrip(_)
RStrip(s) ==
    IF s # <<>> /\ s[Len(s)] \in WhiteSpace
    THEN RStrip(SubSeq(s, 1, Len(s) - 1))
    ELSE s

\* Python s.strip()
Strip(s) == RStrip(LStrip(s))

LowerChar(c) ==
    IF c \in UpperCase
    THEN LowerSeq[CHOOSE i \in DOMAIN UpperSeq : UpperSeq[i] = c]
    ELSE c

\* Python s.lower()
Lower(s) == [i \in 1..Len(s) |-> LowerChar(s[i])]

\* Python s.replace(old, new): leftmost, non-overlapping occurrences
RECURSIVE Replace(_, _, _)
Replace(s, old, new) ==
    IF Len(s) < Len(old) THEN s
    ELSE IF StartsAt(s, old, 1)
         THEN new \o Replace(SubSeq(s, Len(old) + 1, Len(s)), old, new)
         ELSE <<Head(s)>> \o Replace(Tail(s), old, new)

\* Python s.split(c) for a one-character separator: always at least one piece
RECURSIVE Split(_, _)
Split(s, c) ==
    IF \A i \in 1..Len(s) : s[i] # c THEN <<s>>
    ELSE LET k == CHOOSE i \in 1..Len(s) :
                     s[i] = c /\ \A j \in 1..(i - 1) : s[j] # c
         IN  <<SubSeq(s, 1, k - 1)>> \o Split(SubSeq(s, k + 1, Len(s)), c)

\* Python sep.join(list)
RECURSIVE Join(_, _)
Join(list, sep) ==
    IF list = <<>> THEN <<>>
    ELSE IF Len(list) = 1 THEN list[1]
    ELSE list[1] \o sep \o Join(Tail(list), sep)

\* Python str.isdigit(): non-empty and every character a digit
IsDigitStr(s) == s # <<>> /\ \A i \in 1..Len(s) : s[i] \in Digit

NonEmpty(s) == s # <<>>

\* Python [f(x) for x in list]
MapStrip(list) == [i \in 1..Len(list) |-> Strip(list[i])]

(***************************************************************************)
(* utils.py: the tech-stack tokenizer and the goodbye detector.            *)
(***************************************************************************)
AndWord == <<" ", "a", "n", "d", " ">>

CommaSpace == <<",", " ">>

\* a tokenizer that keeps the empty pieces
parse_tech_stack_keep_empty(value) ==
    IF value = <<>> THEN <<>>
    ELSE MapStrip(Split(Replace(value, AndWord, <<",">>), ","))

\* lines 171-175
parse_tech_stack(value) ==
    IF value = <<>> THEN <<>>
    ELSE SelectSeq(MapStrip(Split(Replace(value, AndWord, <<",">>), ",")),
                   NonEmpty)

GoodbyeKeywords ==
    { <<"b", "y", "e">>,
      <<"g", "o", "o", "d", "b", "y", "e">>,
      <<"t", "h", "a", "n", "k", " ", "y", "o", "u">>,
      <<"t", "h", "a", "n", "k", "s">>,
      <<"e", "x", "i", "t">>,
      <<"q", "u", "i", "t">>,
      <<"s", "e", "e", " ", "y", "o", "u">> }

is_goodbye(text) ==
    IF text = <<>> THEN FALSE
    ELSE \E k \in GoodbyeKeywords : Contains(Lower(Strip(text)), k)

(***************************************************************************)
(* app.py: the field extractor.  The three regular expressions are         *)
(* computed as Python's re computes them: leftmost match, greedy           *)
(* quantifiers with backtracking.                                          *)
(***************************************************************************)
REQUIRED_FIELDS ==
    <<"name", "email", "phone", "experience", "position", "location",
      "tech_stack">>

FieldNames == {REQUIRED_FIELDS[i] : i \in DOMAIN REQUIRED_FIELDS}

\* [A-Za-z0-9._%+-]
LocalChar == Alpha \cup Digit \cup {".", "_", "%", "+", "-"}

\* [A-Za-z0-9.-]
DomainChar == Alpha \cup Digit \cup {".", "-"}

\* last position of the longest run of characters of C that starts at i
\* (i - 1 when s[i] is not in C)
RECURSIVE RunEnd(_, _, _)
RunEnd(s, i, C) ==
    IF i <= Len(s) /\ s[i] \in C THEN RunEnd(s, i + 1, C) ELSE i - 1

SetMax(S) == CHOOSE x \in S : \A y \in S : y <= x

SetMin(S) == CHOOSE x \in S : \A y \in S : x <= y

\* end of the match of [A-Za-z0-9._%+-]+@[A-Za-z0-9.-]+\.[A-Za-z]{2,} that
\* starts at i, 0 when there is none
EmailMatchEnd(s, i) ==
    LET le   == RunEnd(s, i, LocalChar)
        at   == le + 1
        de   == RunEnd(s, at + 1, DomainChar)
        dots == {p \in (at + 2)..de :
                    /\ s[p] = "."
                    /\ p + 2 <= Len(s)
                    /\ s[p + 1] \in Alpha
                    /\ s[p + 2] \in Alpha}
    IN  IF le >= i /\ at <= Len(s) /\ s[at] = "@" /\ dots # {}
        THEN RunEnd(s, SetMax(dots) + 1, Alpha)
        ELSE 0

ExtractEmail(text) ==
    LET starts == {i \in 1..Len(text) : EmailMatchEnd(text, i) > 0}
    IN  IF starts = {} THEN text
        ELSE SubSeq(text, SetMin(starts), EmailMatchEnd(text, SetMin(starts)))

IsDigitChar(c) == c \in Digit

ExtractPhone(text) ==
    LET digits == SelectSeq(text, IsDigitChar)
    IN  IF Len(digits) >= 7 THEN digits ELSE text

\* end of the match of \d+(\.\d+)? that starts at the digit at i
NumberMatchEnd(s, i) ==
    LET e1 == RunEnd(s, i, Digit)
    IN  IF e1 + 2 <= Len(s) /\ s[e1 + 1] = "." /\ s[e1 + 2] \in Digit
        THEN RunEnd(s, e1 + 2, Digit)
        ELSE e1

ExtractExperience(text) ==
    LET starts == {i \in 1..Len(text) : text[i] \in Digit}
    IN  IF starts = {} THEN text
        ELSE SubSeq(text, SetMin(starts), NumberMatchEnd(text, SetMin(starts)))

_extract_value_for_field(user_text, field) ==
    LET text == Strip(user_text)
    IN  CASE field = "email"      -> ExtractEmail(text)
          [] field = "phone"      -> ExtractPhone(text)
          [] field = "experience" -> ExtractExperience(text)
          [] field = "tech_stack" -> Join(parse_tech_stack(text), CommaSpace)
          [] OTHER                -> text

IsMissing(candidate, f) == candidate[f] = <<>>

\* the missing fields in the reverse of the declared order
get_missing_fields_any_order(candidate) ==
    LET Missing(f) == IsMissing(candidate, f)
        Rev == [i \in DOMAIN REQUIRED_FIELDS |->
                   REQUIRED_FIELDS[Len(REQUIRED_FIELDS) + 1 - i]]
    IN  SelectSeq(Rev, Missing)

get_missing_fields(candidate) ==
    LET Missing(f) == IsMissing(candidate, f)
    IN  SelectSeq(REQUIRED_FIELDS, Missing)

(***************************************************************************)
(* utils.py: question generation, from the stripped text of the remote     *)
(* response on.  The remote call itself is made by the caller's action.    *)
(***************************************************************************)
\* text.splitlines(), then strip every line and drop the empty ones
StrippedLines(text) == SelectSeq(MapStrip(Split(text, "\n")), NonEmpty)

\* lines 125-131: the three marker tests, in the order the code makes them
CleanNumbered2(line) ==
    IF IsDigitStr(Slice(line, 0, 2)) /\ Slice(line, 1, 2) = <<".">>
    THEN Strip(SliceFrom(line, 2))
    ELSE line

CleanNumbered3(line) ==
    IF IsDigitStr(Slice(line, 0, 3)) /\ Slice(line, 2, 3) = <<".">>
    THEN Strip(SliceFrom(line, 3))
    ELSE line

CleanBullet(line) ==
    IF line # <<>> /\ Head(line) \in {"-", "*"}
    THEN Strip(Tail(line))
    ELSE line

CleanLine(line) == CleanBullet(CleanNumbered3(CleanNumbered2(line)))

MaxQuestions == 5

MinQuestions == 3

\* a parse that returns every cleaned line, however many or few
ParseQuestionsUncut(text) ==
    LET lines   == StrippedLines(text)
        cleaned == [i \in 1..Len(lines) |-> CleanLine(lines[i])]
    IN  SelectSeq(cleaned, NonEmpty)

\* lines 119-141
ParseQuestions(text) ==
    LET lines     == StrippedLines(text)
        cleaned   == [i \in 1..Len(lines) |-> CleanLine(lines[i])]
        questions == SelectSeq(cleaned, NonEmpty)
    IN  IF Len(questions) > MaxQuestions THEN SubSeq(questions, 1, MaxQuestions)
        ELSE IF Len(questions) < MinQuestions /\ Len(lines) >= MinQuestions
             THEN SubSeq(lines, 1, MinQuestions)
             ELSE questions

\* lines 110-118 and 120-141, given the text the remote call returned
generate_questions(tech_stack_list, response_text) ==
    IF tech_stack_list = <<>> THEN <<>>
    ELSE LET text == Strip(response_text)
         IN  IF text = <<>> THEN <<>> ELSE ParseQuestions(text)

(***************************************************************************)
(* utils.py: record persistence.  The file is a sequence of text lines.    *)
(* save_candidate_row re-reads the whole file with pandas.read_csv (which  *)
(* infers a type for every column), appends the row and writes the whole   *)
(* frame back with DataFrame.to_csv.  Cells are modelled for text without  *)
(* line breaks and for numerals without exponent.                          *)
(***************************************************************************)
FieldText(f) ==
    CASE f = "name"       -> <<"n", "a", "m", "e">>
      [] f = "email"      -> <<"e", "m", "a", "i", "l">>
      [] f = "phone"      -> <<"p", "h", "o", "n", "e">>
      [] f = "experience" -> <<"e", "x", "p", "e", "r", "i", "e", "n", "c", "e">>
      [] f = "position"   -> <<"p", "o", "s", "i", "t", "i", "o", "n">>
      [] f = "location"   -> <<"l", "o", "c", "a", "t", "i", "o", "n">>
      [] f = "tech_stack" -> <<"t", "e", "c", "h", "_", "s", "t", "a", "c", "k">>

\* line 146
columns ==
    <<"name", "email", "phone", "experience", "position", "location",
      "tech_stack">>

ColumnTexts == [i \in DOMAIN columns |-> FieldText(columns[i])]

\* csv.writer, QUOTE_MINIMAL: a field holding the delimiter, the quote
\* character or a line break is quoted, its quotes doubled
QuoteField(c) ==
    IF \E i \in 1..Len(c) : c[i] \in {",", "\"", "\n", "\r"}
    THEN <<"\"">> \o Replace(c, <<"\"">>, <<"\"", "\"">>) \o <<"\"">>
    ELSE c

FormatLine(cells) ==
    Join([i \in 1..Len(cells) |-> QuoteField(cells[i])], <<",">>)

\* a comma outside quotes: an even number of quote characters precedes it
IsSeparator(line, i) ==
    /\ line[i] = ","
    /\ Cardinality({j \in 1..(i - 1) : line[j] = "\""}) % 2 = 0

Unquote(f) ==
    IF f # <<>> /\ Head(f) = "\""
    THEN Replace(SubSeq(f, 2, Len(f) - 1), <<"\"", "\"">>, <<"\"">>)
    ELSE f

\* the fields of one line of the file
ParseLine(line) ==
    LET seps     == {i \in 1..Len(line) : IsSeparator(line, i)}
        n        == Cardinality(seps)
        SepAt(k) == IF k = 0 THEN 0
                    ELSE IF k = n + 1 THEN Len(line) + 1
                    ELSE CHOOSE i \in seps :
                             Cardinality({j \in seps : j < i}) = k - 1
    IN  [k \in 1..(n + 1) |->
            Unquote(SubSeq(line, SepAt(k - 1) + 1, SepAt(k) - 1))]

\* read_csv's default na_values
NaLiterals ==
    { <<>>,
      <<"#", "N", "/", "A">>,
      <<"#", "N", "/", "A", " ", "N", "/", "A">>,
      <<"#", "N", "A">>,
      <<"-", "1", ".", "#", "I", "N", "D">>,
      <<"-", "1", ".", "#", "Q", "N", "A", "N">>,
      <<"-", "N", "a", "N">>,
      <<"-", "n", "a", "n">>,
      <<"1", ".", "#", "I", "N", "D">>,
      <<"1", ".", "#", "Q", "N", "A", "N">>,
      <<"<", "N", "A", ">">>,
      <<"N", "/", "A">>,
      <<"N", "A">>,
      <<"N", "U", "L", "L">>,
      <<"N", "a", "N">>,
      <<"N", "o", "n", "e">>,
      <<"n", "/", "a">>,
      <<"n", "a", "n">>,
      <<"n", "u", "l", "l">> }

IsNa(c) == c \in NaLiterals

HasSign(c) == c # <<>> /\ Head(c) \in {"+", "-"}

Unsigned(c) == IF HasSign(c) THEN Tail(c) ELSE c

IsIntLit(c) == IsDigitStr(Unsigned(c))

\* digits "." digits, with a digit on at least one side
IsFloatLit(c) ==
    LET u     == Unsigned(c)
        parts == Split(u, ".")
    IN  /\ Len(parts) = 2
        /\ \A i \in 1..2 : parts[i] = <<>> \/ IsDigitStr(parts[i])
        /\ parts[1] # <<>> \/ parts[2] # <<>>

RECURSIVE DropLeadingZeros(_)
DropLeadingZeros(d) ==
    IF Len(d) > 1 /\ Head(d) = "0" THEN DropLeadingZeros(Tail(d)) ELSE d

RECURSIVE DropTrailingZeros(_)
DropTrailingZeros(d) ==
    IF Len(d) > 1 /\ d[Len(d)] = "0"
    THEN DropTrailingZeros(SubSeq(d, 1, Len(d) - 1))
    ELSE d

OrZero(d) == IF d = <<>> THEN <<"0">> ELSE d

\* an int64 cell as to_csv prints it
RenderInt(c) ==
    LET d == DropLeadingZeros(Unsigned(c))
    IN  IF HasSign(c) /\ Head(c) = "-" /\ d # <<"0">> THEN <<"-">> \o d ELSE d

\* a float64 cell as to_csv prints it (repr of the float)
RenderFloat(c) ==
    LET parts == Split(Unsigned(c), ".")
        whole == DropLeadingZeros(OrZero(parts[1]))
        frac  == IF Len(parts) = 2 THEN DropTrailingZeros(OrZero(parts[2]))
                 ELSE <<"0">>
        sign  == IF HasSign(c) /\ Head(c) = "-" THEN <<"-">> ELSE <<>>
    IN  sign \o whole \o <<".">> \o frac

TrueLiterals == { <<"T", "r", "u", "e">>, <<"T", "R", "U", "E">>,
                  <<"t", "r", "u", "e">> }

FalseLiterals == { <<"F", "a", "l", "s", "e">>, <<"F", "A", "L", "S", "E">>,
                   <<"f", "a", "l", "s", "e">> }

RenderBool(c) ==
    IF c \in TrueLiterals THEN <<"T", "r", "u", "e">>
    ELSE <<"F", "a", "l", "s", "e">>

\* a reader that keeps every cell as the text it found
InferColumnIdentity(cells) == cells

\* one column of the file as read_csv types it and to_csv prints it again:
\* all integers -> int64; numerals, or integers with a missing value ->
\* float64; all booleans -> bool; anything else stays text (object); a
\* missing value is printed as the empty field

InferColumn(cells) ==
    LET n     == Len(cells)
        vals  == {i \in 1..n : ~IsNa(cells[i])}
        anyNa == vals # 1..n
        Blank(R(_)) == [i \in 1..n |-> IF i \in vals THEN R(cells[i]) ELSE <<>>]
        Same(c) == c
    IN  IF vals = {} THEN Blank(Same)
        ELSE IF \A i \in vals : IsIntLit(cells[i])
             THEN IF anyNa THEN Blank(RenderFloat) ELSE Blank(RenderInt)
        ELSE IF \A i \in vals : IsIntLit(cells[i]) \/ IsFloatLit(cells[i])
             THEN Blank(RenderFloat)
        ELSE IF ~anyNa /\ \A i \in vals :
                              cells[i] \in TrueLiterals \cup FalseLiterals
             THEN Blank(RenderBool)
        ELSE Blank(Same)

\* pd.read_csv(filepath): the header line names the columns; the frame is
\* kept as the rows to_csv would print
read_csv(lines) ==
    LET header == ParseLine(lines[1])
        raw    == [r \in 1..(Len(lines) - 1) |-> ParseLine(lines[r + 1])]
        col(j) == InferColumn([r \in 1..Len(raw) |-> raw[r][j]])
    IN  [header |-> header,
         rows   |-> [r \in 1..Len(raw) |->
                        [j \in 1..Len(header) |-> col(j)[r]]]]

\* df.to_csv(filepath, index=False)
to_csv(df) ==
    <<FormatLine(df.header)>> \o
        [r \in 1..Len(df.rows) |-> FormatLine(df.rows[r])]

\* line 147
CandidateRow(candidate) == [i \in DOMAIN columns |-> candidate[columns[i]]]

\* lines 150-152: the file as created when it does not exist
EnsureFile(file) ==
    IF file.exists THEN file
    ELSE [exists |-> TRUE,
          lines  |-> to_csv([header |-> ColumnTexts, rows |-> <<>>])]

\* save_candidate_row when no call raises
save_candidate_row(file, candidate) ==
    LET df == read_csv(EnsureFile(file).lines)
    IN  [exists |-> TRUE,
         lines  |-> to_csv([header |-> df.header,
                            rows   |-> Append(df.rows, CandidateRow(candidate))])]

(***************************************************************************)
(* app.py: the session state and the script runs of main().  Streamlit     *)
(* runs main() once per user event (a chat input, a click on Reset) and,   *)
(* when that run ends in st.rerun(), at once a second time without an      *)
(* event.  An action is the run of one event together with the rerun it    *)
(* asks for; the rerun changes the state only through the greeting of      *)
(* lines 271-281.                                                          *)
(***************************************************************************)
VARIABLES
    messages,         \* st.session_state.messages: the conversation history
    candidate,        \* st.session_state.candidate: the CandidateRecord
    tech_list,        \* st.session_state.tech_list
    current_field,    \* st.session_state.current_field ("" when none)
    session_ended,    \* st.session_state.session_ended
    asked_questions,  \* st.session_state.asked_questions
    chatbot_mode,     \* st.session_state.chatbot_mode
    info_collected,   \* st.session_state.info_collected
    file,             \* data/candidates.csv: [exists, lines]
    question_requests,\* generate_content calls of generate_questions, this session
    chat_requests,    \* generate_content calls of _chatbot_response, this session
    save_log,         \* the calls of save_candidate_row: [candidate, ok]
    turns,            \* user turns handled so far
    resets,           \* clicks on Reset so far
    probe,            \* one call of a helper on its own: [arg, done, result]
    binding           \* the model handle and the names kept with it

vars ==
    <<messages, candidate, tech_list, current_field, session_ended,
      asked_questions, chatbot_mode, info_collected, file,
      question_requests, chat_requests, save_log, turns, resets, probe,
      binding>>

\* bounds of the exploration
MaxTurns == 8

MaxResets == 1

\* "a@b.co,and 07": an e-mail address, a numeral, a comma and an "and"
FullAnswer ==
    <<"a", "@", "b", ".", "c", "o", ",", "a", "n", "d", " ", "0", "7">>

\* ",": text for every field but the tech stack, for which it holds no token
CommaAnswer == <<",">>

\* "Thanks": a goodbye keyword up to letter case
ThanksAnswer == <<"T", "h", "a", "n", "k", "s">>

UserInputs == {FullAnswer, CommaAnswer, ThanksAnswer}

\* "1. a\n2. b\n3. c"
NumberedResponse ==
    <<"1", ".", " ", "a", "\n", "2", ".", " ", "b", "\n", "3", ".", " ", "c">>

\* what model.generate_content(prompt) does: it raises, or returns a text
RemoteOutcomes ==
    { [ok |-> FALSE, text |-> <<>>],
      [ok |-> TRUE, text |-> <<>>],
      [ok |-> TRUE, text |-> NumberedResponse] }

\* what save_candidate_row does: it returns, it raises before anything is
\* written, or it raises after line 152 has created the empty file
SaveOutcomes == {"ok", "error", "error_after_create"}

EmptyCandidate == [f \in FieldNames |-> <<>>]

\* a message of the history: the fixed texts are kept as kinds ("goodbye"
\* stands for whichever text random_goodbye() draws), the variable part
\* (a user text, a list of tokens, questions or summary lines) as body
Msg(role, kind, body) == [role |-> role, kind |-> kind, body |-> body]

Assistant(kind, body) == Msg("assistant", kind, body)

UserMsg(u) == Msg("user", "user", <<u>>)

\* _field_label: the prompt of a field, the fallback text for any other key
_field_label(field_key) ==
    CASE field_key = "name"       -> "ask_name"
      [] field_key = "email"      -> "ask_email"
      [] field_key = "phone"      -> "ask_phone"
      [] field_key = "experience" -> "ask_experience"
      [] field_key = "position"   -> "ask_position"
      [] field_key = "location"   -> "ask_location"
      [] field_key = "tech_stack" -> "ask_tech"
      [] OTHER                    -> "fallback"

\* lines 271-281: the greeting and the first question, on an empty history
Greeting(msgs, cand, cf) ==
    IF msgs # <<>> THEN [messages |-> msgs, current_field |-> cf]
    ELSE LET start_missing == get_missing_fields(cand)
             greeted == <<Assistant("greeting", <<>>)>>
         IN  IF start_missing # <<>>
             THEN [messages |-> Append(greeted,
                        Assistant(_field_label(start_missing[1]), <<>>)),
                   current_field |-> start_missing[1]]
             ELSE [messages |-> greeted, current_field |-> cf]

\* the run on the state of _init_state (lines 28-56) or of a reset
FirstRun == Greeting(<<>>, EmptyCandidate, "")

\* lines 311-314: one line per non-empty field, in the record's key order
NoDetails ==
    <<"N", "o", " ", "d", "e", "t", "a", "i", "l", "s", " ",
      "p", "r", "o", "v", "i", "d", "e", "d", ".">>

SummaryLines(cand) ==
    LET Filled(f) == cand[f] # <<>>
        keys == SelectSeq(REQUIRED_FIELDS, Filled)
    IN  IF keys = <<>> THEN <<NoDetails>>
        ELSE [i \in 1..Len(keys) |->
                 FieldText(keys[i]) \o <<":", " ">> \o cand[keys[i]]]

\* "gemini-2.5-flash"
MODEL_NAME ==
    <<"g", "e", "m", "i", "n", "i", "-", "2", ".", "5", "-", "f", "l", "a",
      "s", "h">>

\* lines 43-46: no handle yet, the default name selected; resolved_for is the
\* name the last resolution was made for, resolutions and runs count the
\* calls of resolve_supported_model and the script runs
Unbound ==
    [model |-> <<>>, bound |-> FALSE, model_name |-> MODEL_NAME,
     initialized_model_name |-> <<>>, resolved_for |-> <<>>,
     resolutions |-> 0, runs |-> 0]

NoProbe == [arg |-> <<>>, done |-> TRUE, result |-> <<>>]

\* the state after the first script run: _init_state, then the greeting
SessionStart ==
    /\ messages = FirstRun.messages
    /\ candidate = EmptyCandidate
    /\ tech_list = <<>>
    /\ current_field = FirstRun.current_field
    /\ session_ended = FALSE
    /\ asked_questions = <<>>
    /\ chatbot_mode = FALSE
    /\ info_collected = FALSE
    /\ file = [exists |-> FALSE, lines |-> <<>>]
    /\ question_requests = 0
    /\ chat_requests = 0
    /\ save_log = <<>>
    /\ turns = 0
    /\ resets = 0

Init == SessionStart /\ probe = NoProbe /\ binding = Unbound

\* a script run that gives a flag its default again
SessionDefault(value, default) == default

\* lines 53-54: _init_state gives the flag its default only when the session
\* state has no such key, so a later script run starts from the value the
\* flag has
SessionValue(value, default) == value

\* a chat input that is never disabled
InputAlwaysEnabled == TRUE

\* lines 288-292: the chat input is disabled once the session has ended
InputEnabled == ~session_ended

\* a script run with a submitted chat input
TurnReady == InputEnabled /\ turns < MaxTurns

\* is_goodbye on the inputs of the model, computed once
GoodbyeInputs == {u \in UserInputs : is_goodbye(u)}

\* a routing that never takes the chat branch
TurnRouteNoChat(u) ==
    IF u \in GoodbyeInputs THEN "end" ELSE "collect"

\* lines 310, 338, 350: which branch handles the turn
TurnRoute(u) ==
    IF u \in GoodbyeInputs THEN "end"
    ELSE IF chatbot_mode THEN "chat"
    ELSE "collect"

\* a reset that clears the history and the flags but keeps the record
ResetKeepingRecord ==
    /\ resets < MaxResets
    /\ messages' = Greeting(<<>>, candidate, "").messages
    /\ current_field' = Greeting(<<>>, candidate, "").current_field
    /\ session_ended' = FALSE
    /\ asked_questions' = <<>>
    /\ chatbot_mode' = FALSE
    /\ info_collected' = FALSE
    /\ question_requests' = 0
    /\ chat_requests' = 0
    /\ resets' = resets + 1
    /\ UNCHANGED <<candidate, tech_list, file, save_log, turns, probe,
                   binding>>

\* lines 193-220: the Reset button, and the rerun of line 220
ResetClick ==
    /\ resets < MaxResets
    /\ messages' = FirstRun.messages
    /\ candidate' = EmptyCandidate
    /\ tech_list' = <<>>
    /\ current_field' = FirstRun.current_field
    /\ session_ended' = FALSE
    /\ asked_questions' = <<>>
    /\ chatbot_mode' = FALSE
    /\ info_collected' = FALSE
    /\ question_requests' = 0
    /\ chat_requests' = 0
    /\ resets' = resets + 1
    /\ UNCHANGED <<file, save_log, turns, probe,
                   binding>>

\* lines 329-332: the file after the call, by what the call did
SaveResult(f, cand, io) ==
    CASE io = "ok"                 -> save_candidate_row(f, cand)
      [] io = "error_after_create" -> EnsureFile(f)
      [] OTHER                     -> f

\* an ending that depends on the save having succeeded
EndedOnlyIfSaved(saved) == saved

\* line 334 runs after the try/except of lines 329-332, whatever it caught
EndedAfterSave(saved) == TRUE

\* a goodbye that never calls save_candidate_row
SaveSkipped(log, cand, io) == log

\* line 330: the one call of save_candidate_row, with the record it is given
\* and whether it returned
SaveAttempt(log, cand, io) ==
    Append(log, [candidate |-> cand, ok |-> io = "ok"])

\* lines 309-335: a turn with goodbye intent
GoodbyeTurn(u) ==
    /\ TurnReady
    /\ TurnRoute(u) = "end"
    /\ LET g == Greeting(messages, candidate, current_field)
       IN  /\ messages' =
                  Append(Append(g.messages, UserMsg(u)),
                         Assistant("goodbye", SummaryLines(candidate)))
           /\ current_field' = g.current_field
    /\ \E io \in SaveOutcomes :
           /\ file' = SaveResult(file, candidate, io)
           /\ save_log' = SaveAttempt(save_log, candidate, io)
           /\ session_ended' = EndedAfterSave(io = "ok")
    /\ chatbot_mode' = SessionValue(chatbot_mode, FALSE)
    /\ turns' = turns + 1
    /\ UNCHANGED <<candidate, tech_list, asked_questions, info_collected,
                   question_requests, chat_requests, resets, probe,
                   binding>>

\* _chatbot_response, lines 155-160: the stripped text, or the fallback
\* text when the call raises or returns nothing
ReplyMsg(reply) ==
    IF reply.ok /\ Strip(reply.text) # <<>>
    THEN Assistant("reply", <<Strip(reply.text)>>)
    ELSE Assistant("UNKNOWN_FALLBACK", <<>>)

\* lines 337-348: a turn in chatbot mode
ChatTurn(u) ==
    /\ TurnReady
    /\ TurnRoute(u) = "chat"
    /\ LET g == Greeting(messages, candidate, current_field)
       IN  /\ \E reply \in RemoteOutcomes :
                  messages' =
                      Append(Append(g.messages, UserMsg(u)), ReplyMsg(reply))
           /\ current_field' = g.current_field
    /\ chat_requests' = chat_requests + 1
    /\ chatbot_mode' = SessionValue(chatbot_mode, FALSE)
    /\ turns' = turns + 1
    /\ UNCHANGED <<candidate, tech_list, session_ended, asked_questions,
                   info_collected, file, question_requests, save_log, resets,
                   probe, binding>>

\* Python cand[key] = value: the key is added when the dict has none such
SetItem(cand, key, value) ==
    [k \in DOMAIN cand \cup {key} |-> IF k = key THEN value ELSE cand[k]]

\* a capture that stores the answer under the prompt's label
CaptureUnderLabel(u, field) ==
    IF field # ""
    THEN LET value == _extract_value_for_field(u, field)
         IN  [candidate |-> SetItem(candidate, _field_label(field), value),
              tech_list |-> tech_list]
    ELSE [candidate |-> candidate, tech_list |-> tech_list]

\* lines 351-360: the answer is stored in the awaited field, and only there
Capture(u, field) ==
    IF field # ""
    THEN LET value == _extract_value_for_field(u, field)
         IN  [candidate |-> SetItem(candidate, field, value),
              tech_list |-> IF field = "tech_stack"
                            THEN parse_tech_stack(value)
                            ELSE tech_list]
    ELSE [candidate |-> candidate, tech_list |-> tech_list]

\* a test that waits neither for the record to be complete nor for tokens
GenerationDueEarly(c) ==
    /\ ~info_collected
    /\ asked_questions = <<>>

\* lines 365 and 367: the confirmation and the questions are due
GenerationDue(c) ==
    /\ get_missing_fields(c.candidate) = <<>>
    /\ ~info_collected
    /\ c.tech_list # <<>>
    /\ asked_questions = <<>>

\* lines 350-365 and 409-416: a collecting turn that ends with the next
\* question (or, with nothing missing and nothing due, with no message)
CollectTurn(u) ==
    /\ TurnReady
    /\ TurnRoute(u) = "collect"
    /\ LET g == Greeting(messages, candidate, current_field)
           c == Capture(u, g.current_field)
           missing_after == get_missing_fields(c.candidate)
           msgs == Append(g.messages, UserMsg(u))
       IN  /\ ~GenerationDue(c)
           /\ candidate' = c.candidate
           /\ tech_list' = c.tech_list
           /\ IF missing_after # <<>>
                  /\ ~(missing_after = <<>> /\ ~info_collected)
              THEN /\ current_field' = missing_after[1]
                   /\ messages' =
                          Append(msgs, Assistant(_field_label(missing_after[1]),
                                                 <<>>))
              ELSE /\ current_field' = g.current_field
                   /\ messages' = msgs
    /\ chatbot_mode' = SessionValue(chatbot_mode, FALSE)
    /\ turns' = turns + 1
    /\ UNCHANGED <<session_ended, asked_questions, info_collected, file,
                   question_requests, chat_requests, save_log, resets, probe,
                   binding>>

\* lines 350-408: the collecting turn that fills the last field.  The call
\* of generate_questions (line 381) is not inside a try: when the remote
\* call raises, the script run ends there, with what was assigned before.
CompleteTurn(u) ==
    /\ TurnReady
    /\ TurnRoute(u) = "collect"
    /\ LET g == Greeting(messages, candidate, current_field)
           c == Capture(u, g.current_field)
           confirmed == Append(Append(g.messages, UserMsg(u)),
                               Assistant("confirm_tech", c.tech_list))
       IN  /\ GenerationDue(c)
           /\ candidate' = c.candidate
           /\ tech_list' = c.tech_list
           /\ question_requests' = question_requests + 1
           /\ \E gen \in RemoteOutcomes :
                  LET qs == generate_questions(c.tech_list, gen.text)
                  IN  IF ~gen.ok
                      THEN /\ messages' = confirmed
                           /\ current_field' = g.current_field
                           /\ chatbot_mode' = SessionValue(chatbot_mode, FALSE)
                           /\ UNCHANGED <<asked_questions, info_collected>>
                      ELSE /\ asked_questions' =
                                  IF qs # <<>> THEN qs ELSE asked_questions
                           /\ messages' =
                                  Append(Append(confirmed,
                                      IF qs # <<>>
                                      THEN Assistant("questions_intro", qs)
                                      ELSE Assistant("UNKNOWN_FALLBACK", <<>>)),
                                      Assistant("chatbot_ready", <<>>))
                           /\ chatbot_mode' = TRUE
                           /\ info_collected' = TRUE
                           /\ current_field' = ""
    /\ turns' = turns + 1
    /\ UNCHANGED <<session_ended, file, chat_requests, save_log, resets, probe,
                   binding>>

Next ==
    \/ ResetClick
    \/ \E u \in UserInputs : GoodbyeTurn(u)
    \/ \E u \in UserInputs : ChatTurn(u)
    \/ \E u \in UserInputs : CollectTurn(u)
    \/ \E u \in UserInputs : CompleteTurn(u)

Spec == Init /\ [][Next]_vars

(***************************************************************************)
(* utils.py: resolve_supported_model.  A listing is what genai.list_models *)
(* gave: it raised, or it returned models, each with a name and the        *)
(* methods it supports.                                                    *)
(***************************************************************************)
\* "-latest"
LatestSuffix == <<"-", "l", "a", "t", "e", "s", "t">>

\* "models/"
ModelsPrefix == <<"m", "o", "d", "e", "l", "s", "/">>

\* "gemini-pro"
GeminiPro == <<"g", "e", "m", "i", "n", "i", "-", "p", "r", "o">>

\* "gemini-1.5-pro"
Gemini15Pro ==
    <<"g", "e", "m", "i", "n", "i", "-", "1", ".", "5", "-", "p", "r", "o">>

\* "gemini-1.5-flash"
Gemini15Flash ==
    <<"g", "e", "m", "i", "n", "i", "-", "1", ".", "5", "-", "f", "l", "a",
      "s", "h">>

\* Python s.endswith(p)
EndsWith(s, p) ==
    Len(p) <= Len(s) /\ SubSeq(s, Len(s) - Len(p) + 1, Len(s)) = p

\* lines 52-53 and 105-106
CleanedOrGeneric(preferred_name) ==
    LET cleaned == Replace(preferred_name, LatestSuffix, <<>>)
    IN  IF cleaned # <<>> THEN cleaned ELSE GeminiPro

\* lines 64-66
supports_generate(m) == "generateContent" \in m.methods

\* lines 68-77
name_matches(m, short_or_full) ==
    LET clean_name == Replace(short_or_full, LatestSuffix, <<>>)
    IN  \/ m.name = short_or_full
        \/ m.name = ModelsPrefix \o short_or_full
        \/ EndsWith(m.name, <<"/">> \o short_or_full)
        \/ EndsWith(m.name, <<"/">> \o clean_name)
        \/ m.name = clean_name
        \/ m.name = ModelsPrefix \o clean_name

\* lines 90-96
preferences(preferred_name) ==
    << Replace(preferred_name, LatestSuffix, <<>>),
       GeminiPro, Gemini15Pro, Gemini15Flash >>

\* the models of a list that match an id, in the order of the list
Matching(models, id) ==
    LET Hit(m) == name_matches(m, id)
    IN  SelectSeq(models, Hit)

\* a resolution that takes the first supported model whatever was asked for
resolve_first_supported(preferred_name, listing) ==
    LET supported == SelectSeq(listing.models, supports_generate)
    IN  IF ~listing.ok THEN CleanedOrGeneric(preferred_name)
        ELSE IF supported = <<>> THEN GeminiPro
        ELSE supported[1].name

\* lines 62-106, with the library installed
resolve_supported_model(preferred_name, listing) ==
    IF ~listing.ok THEN CleanedOrGeneric(preferred_name)
    ELSE LET supported == SelectSeq(listing.models, supports_generate)
             exact     == Matching(supported, preferred_name)
             prefs     == preferences(preferred_name)
             found     == {i \in DOMAIN prefs : Matching(supported, prefs[i]) # <<>>}
         IN  IF supported = <<>> THEN GeminiPro
             ELSE IF exact # <<>> THEN exact[1].name
             ELSE IF found # {}
                  THEN Matching(supported, prefs[SetMin(found)])[1].name
             ELSE supported[1].name

(***************************************************************************)
(* Properties of the dialogue.                                             *)
(***************************************************************************)
\* a step that handles a user turn, and the text of that turn (the user
\* message the step appends to the history)
IsTurn == turns' = turns + 1

TurnInput == messages'[Len(messages) + 1].body[1]

IsReset == resets' = resets + 1

\* position of the awaited field in the declared order; 8 when none is awaited
AwaitedIndex(f) ==
    IF f = "" THEN Len(REQUIRED_FIELDS) + 1
    ELSE CHOOSE i \in DOMAIN REQUIRED_FIELDS : REQUIRED_FIELDS[i] = f

AllFilled == \A f \in FieldNames : candidate[f] # <<>>

CountKind(kind) ==
    Cardinality({i \in DOMAIN messages : messages[i].kind = kind})

LastSave == save_log[Len(save_log)]

\* C1: a user turn without goodbye intent changes no field of the record
\* other than the awaited one, and the awaited field either stays or moves to
\* the next field of name, email, phone, experience, position, location,
\* tech_stack (to "none" after tech_stack): no field is skipped and no
\* earlier field is awaited again.
C1_OneFieldInOrder ==
    [][ (IsTurn /\ ~is_goodbye(TurnInput)) =>
            /\ \A f \in FieldNames :
                   f # current_field => candidate'[f] = candidate[f]
            /\ AwaitedIndex(current_field') \in
                   {AwaitedIndex(current_field), AwaitedIndex(current_field) + 1}
      ]_vars

\* all seven fields have been asked for and captured, one per turn
C1_Witness ==
    /\ AllFilled
    /\ chatbot_mode
    /\ \A i \in DOMAIN REQUIRED_FIELDS :
           messages[2 * i].kind = _field_label(REQUIRED_FIELDS[i])

\* C2: a turn with goodbye intent that arrives while a field f is awaited
\* ends the session in that turn, leaves the record as it was, with f empty,
\* and hands to persistence a record whose column f is empty.
C2_GoodbyeBeforeCapture ==
    [][ (IsTurn /\ is_goodbye(TurnInput) /\ current_field # "") =>
            /\ session_ended'
            /\ candidate' = candidate
            /\ candidate'[current_field] = <<>>
            /\ Len(save_log') = Len(save_log) + 1
            /\ save_log'[Len(save_log')].candidate[current_field] = <<>>
      ]_vars

\* C3: once the session has ended, and until a reset, no user turn is
\* handled, no field of the record changes, no remote generation call is
\* made and the flag stays true.
C3_EndedIsTerminal ==
    [][ (session_ended /\ ~IsReset) =>
            /\ session_ended'
            /\ turns' = turns
            /\ messages' = messages
            /\ candidate' = candidate
            /\ question_requests' = question_requests
            /\ chat_requests' = chat_requests
      ]_vars

\* the session has ended with part of the record captured, while the
\* exploration still allows further turns
C3_Witness ==
    /\ session_ended
    /\ turns < MaxTurns
    /\ candidate["name"] # <<>>
    /\ candidate["tech_stack"] = <<>>

\* C4: within one session the confirmation of the tech stack is emitted at
\* most once and the request for questions is made at most once.
C4_AllCollectedOnce ==
    /\ question_requests <= 1
    /\ CountKind("confirm_tech") <= 1

\* C5: in chatbot mode a turn without goodbye intent leaves the record and
\* the token list unchanged; it makes one chat request, no question request,
\* and appends the user text and the reply (or the fallback text).
C5_ChatLeavesRecord ==
    [][ (IsTurn /\ chatbot_mode /\ ~is_goodbye(TurnInput)) =>
            /\ candidate' = candidate
            /\ tech_list' = tech_list
            /\ chat_requests' = chat_requests + 1
            /\ question_requests' = question_requests
            /\ Len(messages') = Len(messages) + 2
            /\ messages'[Len(messages')].kind \in {"reply", "UNKNOWN_FALLBACK"}
      ]_vars

\* a chat turn has been answered by the remote model
C5_Witness ==
    /\ chat_requests > 0
    /\ messages[Len(messages)].kind = "reply"

\* C7: a question request that yields no question list (the remote call
\* failed or returned empty text) still ends with the fallback text emitted
\* and the session in chatbot mode with no field awaited.
C7_FailureEntersChat ==
    [][ (question_requests' = question_requests + 1 /\ asked_questions' = <<>>) =>
            /\ chatbot_mode'
            /\ current_field' = ""
            /\ messages'[Len(messages') - 1].kind = "UNKNOWN_FALLBACK"
      ]_vars

\* C9: a goodbye turn whose call of save_candidate_row raised still sets
\* the session-ended flag.
C9_EndedDespiteSaveError ==
    [][ (IsTurn /\ is_goodbye(TurnInput) /\ Len(save_log') = Len(save_log) + 1
             /\ ~save_log'[Len(save_log')].ok) => session_ended'
      ]_vars

\* the session ended on a turn whose save raised
C9_Witness == session_ended /\ save_log # <<>> /\ ~LastSave.ok

\* C10: after n >= 1 successful appends to a path that held no file, the
\* file is the header line followed by n lines, the i-th holding the seven
\* values of the i-th appended record in column order.
C10_FileHoldsRecords ==
    LET Ok(e) == e.ok
        done  == SelectSeq(save_log, Ok)
    IN  done # <<>> =>
            /\ file.exists
            /\ Len(file.lines) = Len(done) + 1
            /\ ParseLine(file.lines[1]) = ColumnTexts
            /\ \A i \in 1..Len(done) :
                   ParseLine(file.lines[i + 1]) = CandidateRow(done[i].candidate)

\* C11: a step that ends the session makes exactly one call of
\* save_candidate_row, and a step that does not end it (a capture, a chat
\* turn, a reset) makes none.
C11_OneSavePerEnding ==
    [][ IF ~session_ended /\ session_ended'
        THEN Len(save_log') = Len(save_log) + 1
        ELSE save_log' = save_log /\ file' = file
      ]_vars

\* two sessions have ended, one before and one after a reset, with one call
\* each, and chat turns and captures were made on the way
C11_Witness ==
    /\ session_ended
    /\ resets = 1
    /\ Len(save_log) = 2
    /\ candidate["name"] # <<>>

\* C14: the record always has the seven keys name, email, phone, experience,
\* position, location and tech_stack, and no other, each with a text
\* (possibly empty) as its value.
C14_SevenKeys ==
    /\ DOMAIN candidate = {"name", "email", "phone", "experience", "position",
                           "location", "tech_stack"}
    /\ \A k \in DOMAIN candidate :
           /\ DOMAIN candidate[k] = 1..Len(candidate[k])
           /\ \A i \in DOMAIN candidate[k] : candidate[k][i] \in STRING

\* a record after a reset and after captures that stored an extracted value
\* (the email address found in the answer) and an empty value
C14_Witness ==
    /\ resets = 1
    /\ candidate["name"] = <<",">>
    /\ candidate["email"] = <<"a", "@", "b", ".", "c", "o">>
    /\ candidate["tech_stack"] = <<>>
    /\ current_field = "tech_stack"
    /\ turns = MaxTurns

\* C15: the chatbot-mode flag is false at the start of a session and, once
\* true, stays true over every step that is not a reset.
C15_ChatModeMonotonic ==
    /\ ~chatbot_mode
    /\ [][ /\ (chatbot_mode /\ ~IsReset) => chatbot_mode'
           /\ IsReset => ~chatbot_mode'
         ]_vars

\* chatbot mode was entered with a question list and the session then ended
\* on a goodbye, the flag still true
C15_Witness ==
    /\ chatbot_mode
    /\ asked_questions # <<>>
    /\ session_ended

\* C16: a reset, in whatever state it is issued, leaves the state of a
\* fresh session start: the seven fields empty, the history made of the
\* greeting and the prompt for the name, name awaited, the ended and
\* chatbot-mode flags false, no tokens and no questions; and it writes
\* nothing to the file and makes no call of save_candidate_row.
C16_ResetIsFreshStart ==
    [][ IsReset =>
            /\ \A f \in FieldNames : candidate'[f] = <<>>
            /\ messages' = << [role |-> "assistant", kind |-> "greeting",
                                body |-> <<>>],
                               [role |-> "assistant", kind |-> "ask_name",
                                body |-> <<>>] >>
            /\ current_field' = "name"
            /\ ~session_ended'
            /\ ~chatbot_mode'
            /\ tech_list' = <<>>
            /\ asked_questions' = <<>>
            /\ save_log' = save_log
            /\ file' = file
      ]_vars

\* the state right after a reset of a session that had ended with a record
\* on file
C16_Witness ==
    /\ resets = 1
    /\ turns > 0
    /\ Len(messages) = 2
    /\ ~session_ended
    /\ save_log # <<>>
    /\ LastSave.ok
    /\ LastSave.candidate["tech_stack"] # <<>>

\* C19: a call of save_candidate_row that returned leaves the header and
\* every row the file had, value for value and in their order, and adds
\* one row after them.
C19_AppendOnly ==
    [][ (Len(save_log') = Len(save_log) + 1 /\ save_log'[Len(save_log')].ok) =>
            LET old == IF file.exists THEN file.lines
                       ELSE <<FormatLine(ColumnTexts)>>
            IN  /\ Len(file'.lines) = Len(old) + 1
                /\ \A i \in 1..Len(old) :
                       ParseLine(file'.lines[i]) = ParseLine(old[i])
      ]_vars

\* C20: while the session is neither ended nor in chatbot mode, the awaited
\* field is the first field, in the declared order, that is empty in the
\* record; no field is awaited only in chatbot mode.
C20_AwaitedIsFirstMissing ==
    (~session_ended /\ ~chatbot_mode) =>
        /\ current_field # ""
        /\ candidate[current_field] = <<>>
        /\ \A i \in 1..(AwaitedIndex(current_field) - 1) :
               candidate[REQUIRED_FIELDS[i]] # <<>>

\* C21: in chatbot mode the seven fields of the record are filled, the token
\* list is not empty, the info-collected flag is true and no field is
\* awaited; the info-collected flag and the chatbot-mode flag are equal in
\* every state.
C21_ChatModeMeansCollected ==
    /\ chatbot_mode =>
           /\ \A f \in FieldNames : candidate[f] # <<>>
           /\ tech_list # <<>>
           /\ info_collected
           /\ current_field = ""
    /\ info_collected = chatbot_mode

\* chatbot mode was entered on the fallback text, the remote call having
\* returned no question
C21_Witness ==
    /\ chatbot_mode
    /\ asked_questions = <<>>
    /\ messages[Len(messages)].kind = "chatbot_ready"
    /\ messages[Len(messages) - 1].kind = "UNKNOWN_FALLBACK"

\* C22: a turn that captures the tech stack keeps the token list of the raw
\* answer, and the stored tech_stack text is the ", "-join of the token list
\* kept.
C22_TokensOfRawAnswer ==
    [][ (IsTurn /\ ~is_goodbye(TurnInput) /\ ~chatbot_mode
             /\ current_field = "tech_stack") =>
            /\ tech_list' = parse_tech_stack(TurnInput)
            /\ candidate'["tech_stack"] = Join(tech_list', CommaSpace)
      ]_vars

\* the token list is empty exactly when the stored tech stack is: a record
\* with all seven fields filled never comes with an empty token list
TokensFollowRecord == (tech_list = <<>>) <=> (candidate["tech_stack"] = <<>>)


(***************************************************************************)
(* generate_questions on its own: one call on a token list and a remote    *)
(* response text made of up to MaxLines lines.                             *)
(***************************************************************************)
MaxLines == 6

\* ["Python", "SQL"]
ProbeTokens == << <<"P", "y", "t", "h", "o", "n">>, <<"S", "Q", "L">> >>

\* "1. a", "12. b", "- c" and "*"
ResponseLines ==
    { <<"1", ".", " ", "a">>, <<"1", "2", ".", " ", "b">>,
      <<"-", " ", "c">>, <<"*">> }

Newline == <<"\n">>

Responses ==
    UNION { { Join(ls, Newline) : ls \in [1..n -> ResponseLines] } : n \in 0..MaxLines }

InitGen ==
    /\ SessionStart
    /\ binding = Unbound
    /\ \E r \in Responses : probe = [arg |-> r, done |-> FALSE, result |-> <<>>]

CallGenerateQuestions ==
    /\ ~probe.done
    /\ probe' = [probe EXCEPT !.done = TRUE,
                              !.result = generate_questions(ProbeTokens, probe.arg)]
    /\ UNCHANGED <<messages, candidate, tech_list, current_field, session_ended,
                   asked_questions, chatbot_mode, info_collected, file,
                   question_requests, chat_requests, save_log, turns, resets,
                   binding>>

NextGen == CallGenerateQuestions

SpecGen == InitGen /\ [][NextGen]_vars

\* "<digit>. <text>" and "<digit><digit>. <text>", and the text after the marker
MarkerLen(line) ==
    IF Len(line) >= 3 /\ line[1] \in Digit /\ line[2] = "." /\ line[3] = " " THEN 2
    ELSE IF Len(line) >= 4 /\ line[1] \in Digit /\ line[2] \in Digit
            /\ line[3] = "." /\ line[4] = " " THEN 3
    ELSE 0

WellFormedNumbered(line) ==
    MarkerLen(line) > 0 /\ Strip(SliceFrom(line, MarkerLen(line))) # <<>>

WithoutMarker(line) == Strip(SliceFrom(line, MarkerLen(line)))

WellFormedResponse(text) ==
    LET lines == Split(text, "\n")
    IN  /\ Len(lines) \in MinQuestions..MaxQuestions
        /\ \A i \in 1..Len(lines) : WellFormedNumbered(lines[i])

\* C6: a call on a non-empty token list whose response is 3 to 5 well-formed
\* numbered lines returns those lines without their enumeration marker, in
\* the same order.
C6_NumberingStripped ==
    (probe.done /\ WellFormedResponse(probe.arg)) =>
        LET lines == Split(probe.arg, "\n")
        IN  probe.result = [i \in 1..Len(lines) |-> WithoutMarker(lines[i])]

\* the non-empty lines of a response, trimmed, and those of them that are
\* more than a bullet
RawLines(text) ==
    LET lines == Split(text, "\n")
        Full(l) == Strip(l) # <<>>
        full == SelectSeq(lines, Full)
    IN  [i \in 1..Len(full) |-> Strip(full[i])]

MoreThanBullet(line) ==
    IF Head(line) \in {"-", "*"} THEN Strip(Tail(line)) # <<>> ELSE TRUE

\* C18: on a non-empty response the call returns at most 5 entries, at
\* least 3 when the response has 3 non-empty lines or more, and the first 3
\* lines as they are when fewer than 3 lines are left after cleaning.
C18_ThreeToFive ==
    (probe.done /\ Strip(probe.arg) # <<>>) =>
        LET lines == RawLines(probe.arg)
            left  == SelectSeq(lines, MoreThanBullet)
        IN  /\ Len(probe.result) <= 5
            /\ Len(lines) >= 3 => Len(probe.result) >= 3
            /\ (Len(lines) >= 3 /\ Len(left) < 3) =>
                   probe.result = SubSeq(lines, 1, 3)

\* a response of six lines, four of them a bare bullet, gave its first three
\* lines as they were
C18_Witness ==
    /\ probe.done
    /\ Len(RawLines(probe.arg)) = 6
    /\ Len(SelectSeq(RawLines(probe.arg), MoreThanBullet)) = 2
    /\ probe.result = << <<"*">>, <<"1", ".", " ", "a">>, <<"*">> >>

(***************************************************************************)
(* resolve_supported_model on its own: one call on a preferred id and a    *)
(* listing of up to MaxModels models.                                      *)
(***************************************************************************)
MaxModels == 3

\* "gemini-2.5-flash"
Flash25 ==
    <<"g", "e", "m", "i", "n", "i", "-", "2", ".", "5", "-", "f", "l", "a",
      "s", "h">>

\* "gemini-2.5-flash-latest"
Flash25Latest ==
    <<"g", "e", "m", "i", "n", "i", "-", "2", ".", "5", "-", "f", "l", "a",
      "s", "h", "-", "l", "a", "t", "e", "s", "t">>

\* "gemini-9-latest"
Gemini9Latest ==
    <<"g", "e", "m", "i", "n", "i", "-", "9", "-", "l", "a", "t", "e", "s",
      "t">>

\* "models/embedding-001"
Embedding ==
    <<"m", "o", "d", "e", "l", "s", "/", "e", "m", "b", "e", "d", "d", "i",
      "n", "g", "-", "0", "0", "1">>

\* the ids asked for: short, with the suffix, with the prefix, one that no
\* listed model has, and the empty id
PreferredIds ==
    { Flash25, Flash25Latest, ModelsPrefix \o Gemini15Flash, Gemini9Latest, <<>> }

Generates == {"generateContent", "countTokens"}

Embeds == {"embedContent"}

ListedModels ==
    { [name |-> ModelsPrefix \o Flash25, methods |-> Generates],
      [name |-> ModelsPrefix \o Flash25, methods |-> Embeds],
      [name |-> ModelsPrefix \o GeminiPro, methods |-> Generates],
      [name |-> ModelsPrefix \o Gemini15Flash, methods |-> Generates],
      [name |-> Gemini15Pro, methods |-> Generates],
      [name |-> Embedding, methods |-> Embeds] }

Listings ==
    { [ok |-> FALSE, models |-> <<>>] } \cup
    UNION { { [ok |-> TRUE, models |-> ms] : ms \in [1..n -> ListedModels] } :
            n \in 0..MaxModels }

InitResolve ==
    /\ SessionStart
    /\ binding = Unbound
    /\ \E p \in PreferredIds, l \in Listings :
           probe = [arg |-> [preferred |-> p, listing |-> l],
                    done |-> FALSE, result |-> <<>>]

CallResolve ==
    /\ ~probe.done
    /\ probe' = [probe EXCEPT
                     !.done = TRUE,
                     !.result = resolve_supported_model(probe.arg.preferred,
                                                        probe.arg.listing)]
    /\ UNCHANGED <<messages, candidate, tech_list, current_field, session_ended,
                   asked_questions, chatbot_mode, info_collected, file,
                   question_requests, chat_requests, save_log, turns, resets,
                   binding>>

NextResolve == CallResolve

SpecResolve == InitResolve /\ [][NextResolve]_vars

\* the listed models that support generation, and those of them that have
\* the id: as given or without "-latest", with or without "models/"
Available(listing) ==
    LET Gen(m) == "generateContent" \in m.methods
    IN  SelectSeq(listing.models, Gen)

HasId(m, id) ==
    LET short == Replace(id, LatestSuffix, <<>>)
    IN  m.name \in {id, ModelsPrefix \o id, short, ModelsPrefix \o short}

WithId(listing, id) ==
    LET Hit(m) == HasId(m, id)
    IN  SelectSeq(Available(listing), Hit)

FallbackIds == <<GeminiPro, Gemini15Pro, Gemini15Flash>>

\* C12: over a listing with a model that supports generation, the result
\* is the first model that has the preferred id when there is one; else the
\* first model that has the first fallback id any model has; else the first
\* supporting model of the listing.
C12_FirstMatchWins ==
    (probe.done /\ probe.arg.listing.ok /\ Available(probe.arg.listing) # <<>>) =>
        LET l    == probe.arg.listing
            want == WithId(l, probe.arg.preferred)
            back == {i \in DOMAIN FallbackIds : WithId(l, FallbackIds[i]) # <<>>}
        IN  IF want # <<>> THEN probe.result = want[1].name
            ELSE IF back # {}
                 THEN probe.result = WithId(l, FallbackIds[SetMin(back)])[1].name
            ELSE probe.result = Available(l)[1].name

\* preferred "gemini-2.5-flash" was resolved to "models/gemini-2.5-flash",
\* which the listing had behind another supporting model
C12_Witness ==
    /\ probe.done
    /\ probe.arg.preferred = Flash25
    /\ probe.arg.listing.ok
    /\ Len(probe.arg.listing.models) = 2
    /\ probe.arg.listing.models[1].name = ModelsPrefix \o GeminiPro
    /\ probe.arg.listing.models[1].methods = Generates
    /\ probe.result = ModelsPrefix \o Flash25

\* C13: when the listing raised, and likewise when it has no model that
\* supports generation, the result is the preferred id without "-latest",
\* or "gemini-pro" when that is empty.
C13_FallbackIsStrippedId ==
    (probe.done /\ (~probe.arg.listing.ok \/ Available(probe.arg.listing) = <<>>)) =>
        LET short == Replace(probe.arg.preferred, LatestSuffix, <<>>)
        IN  probe.result = IF short # <<>> THEN short ELSE GeminiPro

(***************************************************************************)
(* parse_tech_stack on its own: one call on a text made of up to MaxChunks *)
(* chunks.                                                                 *)
(***************************************************************************)
MaxChunks == 4

\* "a", "A", ",", " ", " and " and "and"
TextChunks ==
    { <<"a">>, <<"A">>, <<",">>, <<" ">>, AndWord, <<"a", "n", "d">> }

Texts ==
    UNION { { Join(cs, <<>>) : cs \in [1..n -> TextChunks] } : n \in 0..MaxChunks }

InitTokens ==
    /\ SessionStart
    /\ binding = Unbound
    /\ \E t \in Texts : probe = [arg |-> t, done |-> FALSE, result |-> <<>>]

CallParseTechStack ==
    /\ ~probe.done
    /\ probe' = [probe EXCEPT !.done = TRUE,
                              !.result = parse_tech_stack(probe.arg)]
    /\ UNCHANGED <<messages, candidate, tech_list, current_field, session_ended,
                   asked_questions, chatbot_mode, info_collected, file,
                   question_requests, chat_requests, save_log, turns, resets,
                   binding>>

NextTokens == CallParseTechStack

SpecTokens == InitTokens /\ [][NextTokens]_vars

\* the pieces of a text read from the left, from position i on, cur being
\* the piece under way: a " and " and a comma each end a piece
RECURSIVE PiecesFrom(_, _, _)
PiecesFrom(s, i, cur) ==
    IF i > Len(s) THEN <<cur>>
    ELSE IF StartsAt(s, AndWord, i)
         THEN <<cur>> \o PiecesFrom(s, i + Len(AndWord), <<>>)
    ELSE IF s[i] = "," THEN <<cur>> \o PiecesFrom(s, i + 1, <<>>)
    ELSE PiecesFrom(s, i + 1, Append(cur, s[i]))

TrimmedPieces(s) ==
    LET pieces == PiecesFrom(s, 1, <<>>)
        Kept(p) == Strip(p) # <<>>
        kept    == SelectSeq(pieces, Kept)
    IN  [i \in 1..Len(kept) |-> Strip(kept[i])]

\* C17: the tokens of a text are its pieces between commas and " and ",
\* trimmed, without the empty ones, in their order, with duplicates and
\* letter case as they were; the empty text has no token.
C17_TokensArePieces ==
    probe.done =>
        /\ probe.result = TrimmedPieces(probe.arg)
        /\ probe.arg = <<>> => probe.result = <<>>

\* "a and a," gave the tokens "a", "a"
C17_Witness ==
    /\ probe.done
    /\ probe.arg = <<"a">> \o AndWord \o <<"a", ",">>
    /\ probe.result = << <<"a">>, <<"a">> >>

(***************************************************************************)
(* app.py, lines 171-184 and 230-267: the model selection and the binding  *)
(* of the model handle, over up to MaxRuns script runs.  A script run is   *)
(* made for a user turn, for a rerun or for a click; the dialogue does not *)
(* read the names kept here.  The library is installed and an API key is   *)
(* set, so init_gemini_model returns.                                      *)
(***************************************************************************)
MaxRuns == 8

\* "gemini-2.5-pro"
Pro25 ==
    <<"g", "e", "m", "i", "n", "i", "-", "2", ".", "5", "-", "p", "r", "o">>

\* lines 172-177
model_options(current) ==
    IF current \in {MODEL_NAME, Pro25} THEN {MODEL_NAME, Pro25}
    ELSE {current, MODEL_NAME, Pro25}

\* what genai.list_models() gives during a run: it raises, it lists the two
\* selectable models under their full names, or it lists "models/gemini-pro"
\* alone
BindingListings ==
    { [ok |-> FALSE, models |-> <<>>],
      [ok |-> TRUE,
       models |-> << [name |-> ModelsPrefix \o MODEL_NAME, methods |-> Generates],
                     [name |-> ModelsPrefix \o Pro25, methods |-> Generates] >>],
      [ok |-> TRUE,
       models |-> << [name |-> ModelsPrefix \o GeminiPro, methods |-> Generates] >>] }

\* lines 230-267: the handle is built when there is none, and again when the
\* name kept at line 235 or 256 differs from the selected name
BindModel(b, listing) ==
    IF ~b.bound \/ b.initialized_model_name # b.model_name
    THEN LET resolved == resolve_supported_model(b.model_name, listing)
         IN  [b EXCEPT !.model = resolved,
                       !.bound = TRUE,
                       !.initialized_model_name = resolved,
                       !.resolved_for = b.model_name,
                       !.resolutions = @ + 1]
    ELSE b

InitBinding ==
    /\ SessionStart
    /\ probe = NoProbe
    /\ binding = Unbound

\* a script run with the selection as it was
ScriptRun ==
    /\ binding.runs < MaxRuns
    /\ \E listing \in BindingListings :
           binding' = [BindModel(binding, listing) EXCEPT !.runs = @ + 1]
    /\ UNCHANGED <<messages, candidate, tech_list, current_field, session_ended,
                   asked_questions, chatbot_mode, info_collected, file,
                   question_requests, chat_requests, save_log, turns, resets,
                   probe>>

\* the user picks another model in the select box, which makes a script run
SelectModel ==
    /\ binding.runs < MaxRuns
    /\ \E name \in model_options(binding.model_name) \ {binding.model_name},
          listing \in BindingListings :
           binding' = [BindModel([binding EXCEPT !.model_name = name], listing)
                           EXCEPT !.runs = @ + 1]
    /\ UNCHANGED <<messages, candidate, tech_list, current_field, session_ended,
                   asked_questions, chatbot_mode, info_collected, file,
                   question_requests, chat_requests, save_log, turns, resets,
                   probe>>

NextBinding == ScriptRun \/ SelectModel

SpecBinding == InitBinding /\ [][NextBinding]_vars

\* C23: once the handle is bound, a script run calls resolve_supported_model
\* only when the selected name is not the one the last resolution was made
\* for.
C23_ResolveOnlyOnChange ==
    [][ (binding.bound /\ binding'.resolutions > binding.resolutions) =>
            binding'.model_name # binding.resolved_for
      ]_vars

=============================================================================
